---- MODULE Spec2Model ----
(***************************************************************************)
(* Model of bookmarklet-output-webpack-plugin: the PluginCore that drives  *)
(* the BookmarkletDeliveryServer from webpack's hooks, the server's        *)
(* start-up (port negotiation), readiness gating, hash-protected lookup    *)
(* and request routing.                                                    *)
(*                                                                         *)
(* Strings the code transforms (filenames, scripts, hashes) are sequences  *)
(* of one-character strings; fixed texts are plain strings.                *)
(***************************************************************************)
EXTENDS Integers, Sequences, FiniteSets, TLC

\* ------------------------------------------------------------------ bounds
MaxRebuilds == 2        \* compilations (thisCompilation hooks) in one behaviour
MaxStarts == 2          \* invocations of start() in one behaviour
HashStretching == 2     \* the "stretching" option handed to sha256
DigestModulus == 251    \* the stand-in digest works modulo this prime
MaxInvocations == 2     \* runs of a bookmarklet on one page
MaxStretching == 3      \* the largest stretching of a followed sha256 call
MaxViolations == 2      \* securitypolicyviolation events the page sees

\* -------------------------------------------------------- program constants
DefaultPort == 3300           \* defaultOptions.serverPort
MaxFallbackAttempts == 20     \* for (let i = 0; i < 20; i++)
Undefined == -1               \* currentPort?: number, before it is assigned

Ports == DefaultPort .. (DefaultPort + MaxFallbackAttempts)
ServerHost == "localhost"

\* ------------------------------------------------------------ input domains
Filenames == { <<"a", ".", "j", "s">>, <<"&", ".", "j", "s">> }

\* What a file holds in the compilation numbered `version`: a text of its own,
\* longer by "+1" with every rebuild, so that a script names its file and its
\* generation.
RECURSIVE Revisions(_)
Revisions(version) ==
    IF version = 0 THEN <<>> ELSE <<"+", "1">> \o Revisions(version - 1)

SourceText(filename, version) ==
    (IF Head(filename) = "a" THEN <<"a", "(", ")">> ELSE <<"1">>) \o Revisions(version)

\* ----------------------------------------------------------------- helpers
RECURSIVE SeqSum(_)
SeqSum(s) == IF s = <<>> THEN 0 ELSE Head(s) + SeqSum(Tail(s))

\* All sequences over S without repetition (Object.entries of an asset map:
\* distinct keys, in insertion order).
RECURSIVE DistinctSeqs(_)
DistinctSeqs(S) ==
    IF S = {} THEN { <<>> }
    ELSE { <<>> } \cup UNION { { <<x>> \o t : t \in DistinctSeqs(S \ {x}) } : x \in S }

\* ------------------------------------------------------------- utils/sha-256
\* utf8Encoder.encode on the characters the model's filenames and salt use.
CharCode ==
    [ c \in { "a", "b", "&", ".", "j", "s", "S" } |->
        CASE c = "a" -> 97 [] c = "b" -> 98 [] c = "&" -> 38 [] c = "." -> 46
          [] c = "j" -> 106 [] c = "s" -> 115 [] c = "S" -> 83 ]

utf8Encode(str) == [ i \in 1..Len(str) |-> CharCode[str[i]] ]

\* The salt of defaultOptions.createFilenameHash, shortened to one character.
HashSalt == <<"S">>

\* crypto.subtle.digest("SHA-256", data), as a stand-in digest of two bytes:
\* a positional checksum of the bytes, so that it depends on every byte and on
\* the length of its input.
RECURSIVE Checksum(_, _)
Checksum(bytes, acc) ==
    IF bytes = <<>> THEN acc
    ELSE Checksum(Tail(bytes), (acc * 31 + Head(bytes) + 7) % DigestModulus)

Digest(bytes) ==
    LET h == Checksum(bytes, Len(bytes))
    IN  << h, (h * 17 + SeqSum(bytes)) % DigestModulus >>

HexDigit == [ d \in 0..15 |->
    CASE d = 0 -> "0" [] d = 1 -> "1" [] d = 2 -> "2" [] d = 3 -> "3"
      [] d = 4 -> "4" [] d = 5 -> "5" [] d = 6 -> "6" [] d = 7 -> "7"
      [] d = 8 -> "8" [] d = 9 -> "9" [] d = 10 -> "a" [] d = 11 -> "b"
      [] d = 12 -> "c" [] d = 13 -> "d" [] d = 14 -> "e" [] d = 15 -> "f" ]

\* num.toString(16).padStart(2, "0"), joined.
RECURSIVE toHexString(_)
toHexString(binary) ==
    IF binary = <<>> THEN <<>>
    ELSE << HexDigit[Head(binary) \div 16], HexDigit[Head(binary) % 16] >>
           \o toHexString(Tail(binary))

\* Mutant of Concatenated: the salt is put before the hash.
ConcatenatedSaltFirst(binaryHash, binarySalt) == binarySalt \o binaryHash

\* concatenatedData: binaryHash, then binarySalt at binaryHash.length.
Concatenated(binaryHash, binarySalt) == binaryHash \o binarySalt

\* The loop of sha256: `stretching` rounds, each digesting hash ++ salt.
RECURSIVE Stretch(_, _, _)
Stretch(binaryHash, binarySalt, rounds) ==
    IF rounds = 0 THEN binaryHash
    ELSE Stretch(Digest(Concatenated(binaryHash, binarySalt)), binarySalt, rounds - 1)

\* Mutant of sha256: the data is left out, the salt alone is digested.
sha256OfSalt(data, salt, stretching) ==
    toHexString(Stretch(<<>>, utf8Encode(salt), stretching))

sha256(data, salt, stretching) ==
    toHexString(Stretch(utf8Encode(data), utf8Encode(salt), stretching))

\* defaultOptions.createFilenameHash
createFilenameHash(filename) == sha256(filename, HashSalt, HashStretching)

\* The hash of each filename of the model, computed once.
FilenameHash == [ f \in Filenames |-> createFilenameHash(f) ]

\* ---------------------------------------------------------- utils/escape-html
\* Mutant of EscapeChar: the replaceAll of "&" is missing.
EscapeCharSkipAmp(c) ==
    CASE c = "\"" -> <<"&", "#", "3", "4", ";">>
      [] c = "'" -> <<"&", "#", "3", "9", ";">>
      [] c = "<" -> <<"&", "l", "t", ";">>
      [] c = ">" -> <<"&", "g", "t", ";">>
      [] OTHER -> <<c>>

EscapeChar(c) ==
    CASE c = "&" -> <<"&", "a", "m", "p", ";">>
      [] c = "\"" -> <<"&", "#", "3", "4", ";">>
      [] c = "'" -> <<"&", "#", "3", "9", ";">>
      [] c = "<" -> <<"&", "l", "t", ";">>
      [] c = ">" -> <<"&", "g", "t", ";">>
      [] OTHER -> <<c>>

\* The five replaceAll calls; "&" is replaced first, so the "&" of the
\* entities the later calls insert is not escaped again.
RECURSIVE escapeHtml(_)
escapeHtml(str) ==
    IF str = <<>> THEN <<>> ELSE EscapeChar(Head(str)) \o escapeHtml(Tail(str))

\* ------------------------------------------------------- encodeURIComponent
UriUnreserved ==
    { "a", "b", "d", "i", "j", "o", "s", "v", "0", "1", ".", "(", ")" }

PercentEncoded(c) ==
    CASE c = "+" -> <<"%", "2", "B">>
      [] c = ";" -> <<"%", "3", "B">>
      [] c = " " -> <<"%", "2", "0">>
      [] c = "&" -> <<"%", "2", "6">>

RECURSIVE encodeURIComponent(_)
encodeURIComponent(str) ==
    IF str = <<>> THEN <<>>
    ELSE (IF Head(str) \in UriUnreserved THEN <<Head(str)>>
          ELSE PercentEncoded(Head(str)))
         \o encodeURIComponent(Tail(str))

\* ------------------------------------------------------------------- state
VARIABLES
    userOptions,         \* the options object handed to the plugin's constructor
    options,             \* this.options as the code's tests and templates read it
    inUse,               \* ports bound by other processes
    hashCall,            \* a call of sha256 followed round by round
    portProbe,           \* a call of isPortInUse followed event by event
    currentPort,         \* BookmarkletDeliveryServer.currentPort
    listening,           \* server.listening
    boundPort,           \* the port the server's socket is bound to
    listenPending,       \* the port of a listen() call whose bind is outstanding
    isReady,             \* BookmarkletDeliveryServer.isReady
    bookmarkletSources,  \* BookmarkletDeliveryServer.bookmarkletSources
    logged,              \* what logger.info has been given
    consoleErrors,       \* what the callback of server.close has given console.error
    starts,              \* the invocations of start(), each an async task
    crashed,             \* "" while the process runs, else what ended it
    watching,            \* a watch session is open
    pc,                  \* the compiler's position in its hook sequence
    gen,                 \* compilations begun so far
    assets,              \* compilation.assets of the current compilation
    pending,             \* outstanding Promise.all hash computations
    installedFrom,       \* the computation whose result was installed last
    installedGens,       \* the compilations whose sources have been installed
    rejectedGens,        \* the compilations whose hash computation failed
    resp,                \* the response written by the request of this step
    registered,          \* the (filename, script URL) pairs an index has shown
    page                 \* the browser page the bookmarklets are invoked on

configVars == << userOptions, options, inUse, page, hashCall, portProbe >>
serverVars ==
    << currentPort, listening, boundPort, listenPending, isReady,
       bookmarkletSources, logged, consoleErrors >>
buildVars ==
    << watching, pc, gen, assets, pending, installedFrom, installedGens, rejectedGens >>
vars ==
    << configVars, serverVars, starts, crashed, buildVars, resp, registered >>

\* ------------------------------------------------- sha256, round by round
\* No call of sha256 is being followed.
NoHashCall ==
    [ data |-> <<>>, salt |-> <<>>, stretching |-> 0, i |-> 0,
      binaryHash |-> <<>>, digested |-> <<>>, returned |-> FALSE, hex |-> <<>> ]

\* sha256(data, { salt, stretching }) at its first line: binaryHash is the
\* encoded data, no round has run. digested lists the inputs given to
\* crypto.subtle.digest so far.
HashCall(data, salt, stretching) ==
    [ data |-> data, salt |-> salt, stretching |-> stretching, i |-> 0,
      binaryHash |-> utf8Encode(data), digested |-> <<>>,
      returned |-> FALSE, hex |-> <<>> ]

HashIdle ==
    UNCHANGED << userOptions, options, inUse, page, portProbe, serverVars, starts,
                 crashed, buildVars, resp, registered >>

\* One round of the loop: binaryHash = digest(binaryHash ++ binarySalt).
Sha256Round ==
    /\ ~hashCall.returned
    /\ hashCall.i < hashCall.stretching
    /\ LET concatenatedData == Concatenated(hashCall.binaryHash, utf8Encode(hashCall.salt))
       IN  hashCall' = [ hashCall EXCEPT !.i = @ + 1,
                                         !.binaryHash = Digest(concatenatedData),
                                         !.digested = Append(@, concatenatedData) ]
    /\ HashIdle

\* return toHexString(binaryHash)
Sha256Return ==
    /\ ~hashCall.returned
    /\ hashCall.stretching > 0
    /\ hashCall.i >= hashCall.stretching
    /\ hashCall' = [ hashCall EXCEPT !.returned = TRUE,
                                     !.hex = toHexString(hashCall.binaryHash) ]
    /\ HashIdle

\* --------------------------------------------- isPortInUse, event by event
\* No call of isPortInUse is being followed.
NoPortProbe ==
    [ port |-> Undefined, denied |-> {}, pc |-> "idle", bound |-> FALSE,
      error |-> "", settled |-> "pending", rejection |-> "", callerBound |-> FALSE ]

\* isPortInUse(port) after server.listen(port): the transient server has its
\* two once-listeners, the promise is pending. `denied` are the ports the
\* system refuses this process (EACCES).
PortProbe(port, denied) ==
    [ NoPortProbe EXCEPT !.port = port, !.denied = denied, !.pc = "listenCalled" ]

ProbeIdle ==
    UNCHANGED << userOptions, options, inUse, page, hashCall, serverVars, starts,
                 crashed, buildVars, resp, registered >>

\* What the bind of server.listen(port) meets: "" when it succeeds.
BindError(probe) ==
    IF probe.port \in inUse THEN "EADDRINUSE"
    ELSE IF probe.port \in probe.denied THEN "EACCES"
    ELSE ""

\* server.once("error", ...): resolve(true) for EADDRINUSE, reject(error) else.
\* A settled promise ignores later resolve and reject calls.
OnProbeError(probe, code) ==
    IF probe.settled # "pending" THEN [ probe EXCEPT !.error = code ]
    ELSE IF code = "EADDRINUSE"
         THEN [ probe EXCEPT !.error = code, !.settled = "true" ]
         ELSE [ probe EXCEPT !.error = code, !.settled = "rejected", !.rejection = code ]

\* Mutant of OnProbeListening: server.close() is missing.
OnProbeListeningNoClose(probe) ==
    [ probe EXCEPT !.settled = IF @ = "pending" THEN "false" ELSE @ ]

\* server.once("listening", ...): resolve(false); server.close().
OnProbeListening(probe) ==
    [ probe EXCEPT !.settled = IF @ = "pending" THEN "false" ELSE @,
                   !.bound = FALSE ]

\* The bind fails: the server's error event.
ProbeBindFails ==
    /\ portProbe.pc = "listenCalled"
    /\ BindError(portProbe) # ""
    /\ portProbe' = OnProbeError([ portProbe EXCEPT !.pc = "done" ], BindError(portProbe))
    /\ ProbeIdle

\* The bind succeeds: the transient server holds the port, its listening event
\* is due.
ProbeBinds ==
    /\ portProbe.pc = "listenCalled"
    /\ BindError(portProbe) = ""
    /\ portProbe' = [ portProbe EXCEPT !.pc = "bound", !.bound = TRUE ]
    /\ ProbeIdle

\* The server's listening event.
ProbeListening ==
    /\ portProbe.pc = "bound"
    /\ portProbe' = OnProbeListening([ portProbe EXCEPT !.pc = "done" ])
    /\ ProbeIdle

\* The caller, told the port is free, binds it: server.listen of start().
CallerBinds ==
    /\ portProbe.pc = "done"
    /\ portProbe.settled = "false"
    /\ portProbe' = [ portProbe EXCEPT !.pc = "callerListened",
                         !.callerBound = ~portProbe.bound /\ portProbe.port \notin inUse ]
    /\ ProbeIdle

\* ------------------------------------------------------------------ options
\* A key of an options object: present with a value, or absent.
Given(value) == [ given |-> TRUE, value |-> value ]
NoFlag == [ given |-> FALSE, value |-> FALSE ]
NoText == [ given |-> FALSE, value |-> "" ]

\* BookmarkletOutputWebpackPlugin.defaultOptions, the keys the model uses.
defaultOptions ==
    [ urlEncode |-> Given(TRUE), newFile |-> Given(FALSE),
      bookmarkletsList |-> Given(FALSE), removeEntryFile |-> Given(FALSE),
      dynamicScripting |-> Given(TRUE), fallbackPort |-> NoFlag,
      ensureUndefined |-> NoFlag, serverHost |-> NoText ]

\* { ...defaultOptions, ...options }
MergeOptions(user) ==
    [ k \in DOMAIN defaultOptions |->
        IF k \in DOMAIN user /\ user[k].given THEN user[k] ELSE defaultOptions[k] ]

\* A flag as `if (flag)` and `!flag` read it: an absent key is undefined.
ToBoolean(opt) == opt.given /\ opt.value

\* A text as a template literal renders it: an absent key is "undefined".
TemplateText(opt) == IF opt.given THEN opt.value ELSE "undefined"

\* this.options of PluginCore, as its conditions and getOrigin read its keys.
PluginOptions(user) ==
    LET merged == MergeOptions(user)
    IN  [ urlEncode |-> ToBoolean(merged.urlEncode),
          newFile |-> ToBoolean(merged.newFile),
          bookmarkletsList |-> ToBoolean(merged.bookmarkletsList),
          removeEntryFile |-> ToBoolean(merged.removeEntryFile),
          fallbackPort |-> ToBoolean(merged.fallbackPort),
          dynamicScripting |-> ToBoolean(merged.dynamicScripting),
          ensureUndefined |-> ToBoolean(merged.ensureUndefined),
          serverHost |-> TemplateText(merged.serverHost) ]

\* ------------------------------------------------------- requests, responses
\* reqUrl.searchParams.get("filename"): null when the parameter is absent.
NoParam == [ present |-> FALSE, value |-> <<>> ]
Param(value) == [ present |-> TRUE, value |-> value ]

UnknownHash == <<"d", "e", "a", "d">>

\* The requests of the model: the index, a path the server does not route,
\* and /file without a filename, with an unknown one and with each hash.
RequestParams ==
    { NoParam, Param(UnknownHash) } \cup { Param(FilenameHash[f]) : f \in Filenames }
Requests ==
    { [ path |-> "/", param |-> NoParam ], [ path |-> "/other", param |-> NoParam ] }
      \cup { [ path |-> "/file", param |-> p ] : p \in RequestParams }

\* The requests a registered bookmarklet makes: the script URL an index has
\* shown, whatever the server holds by now.
RegisteredRequests ==
    { [ path |-> r.url.pathname, param |-> Param(r.url.filename) ] : r \in registered }

NoContent == [ kind |-> "none", text |-> <<>>, chars |-> <<>>, items |-> <<>> ]
NoResponse ==
    [ path |-> "", param |-> NoParam, threw |-> FALSE,
      status |-> 0, contentType |-> "", content |-> NoContent ]

\* ------------------------------------------------- BookmarkletDeliveryServer
\* `!this.currentPort`
Falsy(port) == port = Undefined \/ port = 0

getOrigin(port) == [ host |-> options.serverHost, port |-> port ]

isStarted == listening

\* Mutant of isPortInUse: the sockets of other processes are not seen.
isPortInUseOwnOnly(port) == listening /\ boundPort = port

\* utils/is-port-in-use: a transient bind of the port reports EADDRINUSE when
\* another process, or this server's own socket, holds it.
isPortInUse(port) == port \in inUse \/ (listening /\ boundPort = port)

\* The i-th candidate of the fallback loop.
FallbackCandidate(i) == DefaultPort + i

\* The port start() hands to server.listen.
ListenPort(selected) == DefaultPort

PortInUseMsg(port) == [ msg |-> "Port is already in use", origin |-> getOrigin(port) ]
StartedMsg(port) == [ msg |-> "Server started at", origin |-> getOrigin(port) ]

\* An invocation of start(): where it stands, the probes it has made (port and
\* answer), the port it has assigned to currentPort, and how it failed.
NewTask ==
    [ pc |-> "probing", i |-> 0, probed |-> <<>>, selected |-> Undefined,
      error |-> "" ]

Running == crashed = ""

\* start() ends by throwing: its promise is rejected and nobody handles it,
\* which ends the process or only warns, depending on the runtime's mode.
Reject(t, probed, selected, error) ==
    /\ starts' = [ starts EXCEPT ![t] =
                     [ @ EXCEPT !.pc = "rejected", !.probed = probed,
                                !.selected = selected, !.error = error ] ]
    /\ crashed' \in { crashed, "unhandledRejection" }

\* Lines 76-77: listen on the port, log the origin. listen() throws on a
\* server that is listening already.
ListenAndLog(t, probed, selected, log) ==
    IF listening
    THEN /\ Reject(t, probed, selected, "ERR_SERVER_ALREADY_LISTEN")
         /\ logged' = log
         /\ UNCHANGED listenPending
    ELSE /\ listenPending' = ListenPort(currentPort')
         /\ logged' = log \cup { StartedMsg(currentPort') }
         /\ starts' = [ starts EXCEPT ![t] =
                          [ @ EXCEPT !.pc = "resolved", !.probed = probed,
                                     !.selected = selected ] ]
         /\ UNCHANGED crashed

\* Lines 65-67, after the fallback loop: `selected` is what the loop assigned.
AfterFallbackLoop(t, probed, selected, log) ==
    /\ currentPort' = IF selected # Undefined THEN selected ELSE currentPort
    /\ IF Falsy(currentPort')
       THEN /\ Reject(t, probed, selected, "Maximum fallback attempts reached.")
            /\ logged' = log
            /\ UNCHANGED listenPending
       ELSE ListenAndLog(t, probed, selected, log)

\* Mutant of FallbackStep: the loop has no break, a free port is assigned and
\* the next candidate is probed all the same.
FallbackStepNoBreak(t, port, busy) ==
    LET task == starts[t]
        probed == Append(task.probed, [ port |-> port, busy |-> busy ])
        log == IF busy THEN logged \cup { PortInUseMsg(port) } ELSE logged
    IN  IF task.i + 1 < MaxFallbackAttempts
        THEN /\ starts' = [ starts EXCEPT ![t] =
                              [ @ EXCEPT !.i = @ + 1, !.probed = probed,
                                         !.selected = IF busy THEN @ ELSE port ] ]
             /\ currentPort' = IF busy THEN currentPort ELSE port
             /\ logged' = log
             /\ UNCHANGED << listenPending, crashed >>
        ELSE AfterFallbackLoop(t, probed, IF busy THEN task.selected ELSE port, log)

\* Lines 53-63: one probe of the fallback loop has answered.
FallbackStep(t, port, busy) ==
    LET task == starts[t]
        probed == Append(task.probed, [ port |-> port, busy |-> busy ])
    IN  IF busy
        THEN IF task.i + 1 < MaxFallbackAttempts
             THEN /\ starts' = [ starts EXCEPT ![t] =
                                   [ @ EXCEPT !.i = @ + 1, !.probed = probed ] ]
                  /\ logged' = logged \cup { PortInUseMsg(port) }
                  /\ UNCHANGED << currentPort, listenPending, crashed >>
             ELSE AfterFallbackLoop(t, probed, Undefined,
                                    logged \cup { PortInUseMsg(port) })
        ELSE AfterFallbackLoop(t, probed, port, logged)

\* Mutant of NoFallbackStep: currentPort is assigned before the answer of the
\* probe is looked at.
NoFallbackStepAssignFirst(t, port, busy) ==
    LET probed == Append(starts[t].probed, [ port |-> port, busy |-> busy ])
    IN  /\ currentPort' = DefaultPort
        /\ IF busy
           THEN /\ Reject(t, probed, Undefined, "Port is already in use")
                /\ UNCHANGED << listenPending, logged >>
           ELSE ListenAndLog(t, probed, DefaultPort, logged)

\* Lines 69-73: the probe of the default port has answered, fallback disabled.
NoFallbackStep(t, port, busy) ==
    LET probed == Append(starts[t].probed, [ port |-> port, busy |-> busy ])
    IN  IF busy
        THEN /\ Reject(t, probed, Undefined, "Port is already in use")
             /\ UNCHANGED << currentPort, listenPending, logged >>
        ELSE /\ currentPort' = DefaultPort
             /\ ListenAndLog(t, probed, DefaultPort, logged)

\* One `await isPortInUse(port)` of start() completes, and start() runs on to
\* its next await or to its end.
StartProbe(t) ==
    /\ Running
    /\ starts[t].pc = "probing"
    /\ IF options.fallbackPort
       THEN LET port == FallbackCandidate(starts[t].i)
            IN  FallbackStep(t, port, isPortInUse(port))
       ELSE NoFallbackStep(t, DefaultPort, isPortInUse(DefaultPort))
    /\ resp' = NoResponse
    /\ UNCHANGED << configVars, listening, boundPort, isReady,
                    bookmarkletSources, consoleErrors, buildVars, registered >>

\* Mutant of ListenComplete: a server that starts listening is ready.
ListenCompleteSetsReady ==
    /\ Running
    /\ listenPending # Undefined
    /\ listenPending' = Undefined
    /\ IF listening
       THEN UNCHANGED << listening, boundPort, crashed, isReady >>
       ELSE IF listenPending \in inUse
            THEN /\ crashed' = "EADDRINUSE"
                 /\ UNCHANGED << listening, boundPort, isReady >>
            ELSE /\ listening' = TRUE
                 /\ boundPort' = listenPending
                 /\ isReady' = TRUE
                 /\ UNCHANGED crashed
    /\ resp' = NoResponse
    /\ UNCHANGED << configVars, currentPort, bookmarkletSources,
                    logged, consoleErrors, starts, buildVars, registered >>

\* The bind of an outstanding listen() completes: the server is listening, or
\* the 'error' event (EADDRINUSE) finds no listener and ends the process.
ListenComplete ==
    /\ Running
    /\ listenPending # Undefined
    /\ listenPending' = Undefined
    /\ IF listening
       THEN UNCHANGED << listening, boundPort, crashed >>
       ELSE IF listenPending \in inUse
            THEN /\ crashed' = "EADDRINUSE"
                 /\ UNCHANGED << listening, boundPort >>
            ELSE /\ listening' = TRUE
                 /\ boundPort' = listenPending
                 /\ UNCHANGED crashed
    /\ resp' = NoResponse
    /\ UNCHANGED << configVars, currentPort, isReady, bookmarkletSources,
                    logged, consoleErrors, starts, buildVars, registered >>

\* createHttpErrorResponse
createHttpErrorResponse(status, statusText) ==
    [ status |-> status, contentType |-> "text/plain",
      content |-> [ NoContent EXCEPT !.kind = "text", !.text = << status, statusText >> ] ]

\* createBookmarkletFileResponse
createBookmarkletFileResponse(script) ==
    [ status |-> 200, contentType |-> "text/javascript",
      content |-> [ NoContent EXCEPT !.kind = "script", !.chars = script ] ]

\* Mutant of createInvalidFileResponse: a failed lookup is an HTTP error.
createInvalidFileResponseAsError == createHttpErrorResponse(404, "Not Found")

\* createInvalidFileResponse: alert(<the message, embedded as JSON>)
createInvalidFileResponse ==
    [ status |-> 200, contentType |-> "text/javascript",
      content |-> [ NoContent EXCEPT !.kind = "alert", !.text =
          << "alert(", "The requested filename cannot be found.", ")" >> ] ]

\* Mutant of createDynamicScriptingBookmarklet: searchParams.set is missing.
createDynamicScriptingBookmarkletBare(hash) ==
    [ scheme |-> "javascript:",
      scriptUrl |-> [ origin |-> getOrigin(currentPort), pathname |-> "/file",
                      filename |-> <<>> ] ]

\* createDynamicScriptingBookmarklet: the javascript: bootstrap, which is
\* determined by the script URL it embeds.
createDynamicScriptingBookmarklet(hash) ==
    [ scheme |-> "javascript:",
      scriptUrl |-> [ origin |-> getOrigin(currentPort), pathname |-> "/file",
                      filename |-> hash ] ]

AnchorPrefix == <<"[", "w", "]", " ">>

\* createBookmarkletsList: one <li><a href=...>text</a></li> per item, the
\* anchor text escaped.
createBookmarkletsList(bookmarklets) ==
    [ i \in 1..Len(bookmarklets) |->
        [ href |-> bookmarklets[i].bookmarklet,
          text |-> escapeHtml(bookmarklets[i].anchorText) ] ]

\* createListResponse
createListResponse ==
    [ status |-> 200, contentType |-> "text/html",
      content |-> [ NoContent EXCEPT !.kind = "html", !.items =
          createBookmarkletsList(
              [ i \in 1..Len(bookmarkletSources) |->
                  [ bookmarklet |->
                        createDynamicScriptingBookmarklet(bookmarkletSources[i].hash),
                    anchorText |->
                        AnchorPrefix \o escapeHtml(bookmarkletSources[i].filename) ] ]) ] ]

\* Mutant of FindSource: any match selects the first source.
FindSourceFirstOnHit(sources, param) ==
    IF \E i \in 1..Len(sources) : param.present /\ sources[i].hash = param.value
    THEN 1 ELSE 0

\* Mutant of FindSource: a filename that a hash starts with selects the source.
FindSourceStartsWith(sources, param) ==
    LET hits == { i \in 1..Len(sources) :
                    /\ param.present
                    /\ Len(param.value) <= Len(sources[i].hash)
                    /\ SubSeq(sources[i].hash, 1, Len(param.value)) = param.value }
    IN  IF hits = {} THEN 0 ELSE CHOOSE i \in hits : \A j \in hits : i <= j

\* Mutant of FindSource: an absent filename matches every hash.
FindSourceAbsentMatches(sources, param) ==
    LET hits == { i \in 1..Len(sources) :
                    ~param.present \/ sources[i].hash = param.value }
    IN  IF hits = {} THEN 0 ELSE CHOOSE i \in hits : \A j \in hits : i <= j

\* bookmarkletSources.find(({ hash }) => hash === searchParams.get("filename")):
\* the index of the first match, 0 for undefined.
FindSource(sources, param) ==
    LET hits == { i \in 1..Len(sources) : param.present /\ sources[i].hash = param.value }
    IN  IF hits = {} THEN 0 ELSE CHOOSE i \in hits : \A j \in hits : i <= j

\* Mutant of createResponse: the path is routed before readiness is looked at.
createResponseRouteFirst(path, param) ==
    IF path \notin { "/", "/file" } THEN createHttpErrorResponse(404, "Not Found")
    ELSE IF ~isReady THEN createHttpErrorResponse(503, "Service Unavailable")
    ELSE IF path = "/" THEN createListResponse
    ELSE createInvalidFileResponse

\* Mutant of createResponse: the switch has no statement after it, and a path
\* it does not list gets what /file gives for a filename it does not know.
createResponseNoDefault(path, param) ==
    IF ~isReady THEN createHttpErrorResponse(503, "Service Unavailable")
    ELSE IF path = "/" THEN createListResponse
    ELSE LET found == FindSource(bookmarkletSources, param)
         IN  IF path = "/file" /\ found # 0
             THEN createBookmarkletFileResponse(bookmarkletSources[found].script)
             ELSE createInvalidFileResponse

\* createResponse
createResponse(path, param) ==
    IF ~isReady THEN createHttpErrorResponse(503, "Service Unavailable")
    ELSE IF path = "/" THEN createListResponse
    ELSE IF path = "/file"
         THEN LET found == FindSource(bookmarkletSources, param)
              IN  IF found # 0
                  THEN createBookmarkletFileResponse(bookmarkletSources[found].script)
                  ELSE createInvalidFileResponse
    ELSE createHttpErrorResponse(404, "Not Found")

\* The script URLs an index response shows, each with the filename it stands
\* for and the generation the index was rendered from.
Shown(sources, response) ==
    IF response.content.kind # "html" THEN {}
    ELSE { [ filename |-> sources[i].filename, gen |-> installedFrom.gen,
             url |-> response.content.items[i].href.scriptUrl ] :
           i \in 1..Len(sources) }

\* new URL(req.url ?? "", origin): a request target of "//" has an empty host
\* and makes the constructor throw.
UrlParses(path) == path # "//"

\* Mutant of Request: a source that has been served is dropped from the
\* server's sources.
RequestServesOnce(path, param) ==
    /\ Running
    /\ listening
    /\ IF Falsy(currentPort) \/ ~UrlParses(path)
       THEN /\ resp' = [ NoResponse EXCEPT !.path = path, !.param = param, !.threw = TRUE ]
            /\ crashed' = "uncaughtException"
            /\ UNCHANGED << registered, bookmarkletSources >>
       ELSE LET response == createResponse(path, param)
                found == FindSource(bookmarkletSources, param)
            IN  /\ resp' = [ path |-> path, param |-> param, threw |-> FALSE,
                            status |-> response.status,
                            contentType |-> response.contentType,
                            content |-> response.content ]
                /\ registered' = registered \cup Shown(bookmarkletSources, response)
                /\ bookmarkletSources' =
                       IF response.content.kind = "script"
                       THEN SelectSeq(bookmarkletSources,
                                      LAMBDA e : e # bookmarkletSources[found])
                       ELSE bookmarkletSources
                /\ UNCHANGED crashed
    /\ UNCHANGED << configVars, currentPort, listening, boundPort, listenPending,
                    isReady, logged, consoleErrors, starts, buildVars >>

\* handleRequest, for a request that reaches the listening socket: it throws
\* when currentPort is falsy and when new URL throws.
Request(path, param) ==
    /\ Running
    /\ listening
    /\ IF Falsy(currentPort) \/ ~UrlParses(path)
       THEN /\ resp' = [ NoResponse EXCEPT !.path = path, !.param = param, !.threw = TRUE ]
            /\ crashed' = "uncaughtException"
            /\ UNCHANGED registered
       ELSE LET response == createResponse(path, param)
            IN  /\ resp' = [ path |-> path, param |-> param, threw |-> FALSE,
                            status |-> response.status,
                            contentType |-> response.contentType,
                            content |-> response.content ]
                /\ registered' = registered \cup Shown(bookmarkletSources, response)
                /\ UNCHANGED crashed
    /\ UNCHANGED << configVars, serverVars, starts, buildVars >>

\* What server.close hands its callback: nothing when it closes a listening
\* socket, ERR_SERVER_NOT_RUNNING when there is none.
CloseError == IF listening THEN "undefined" ELSE "ERR_SERVER_NOT_RUNNING"

\* Mutant of close: the error of server.close is thrown, not logged.
closeThrowing ==
    /\ listening' = FALSE
    /\ boundPort' = Undefined
    /\ UNCHANGED consoleErrors
    /\ crashed' = IF listening THEN crashed ELSE CloseError

\* close(): server.close stops the socket; its callback gives console.error
\* what it receives, and nothing is thrown.
close ==
    /\ listening' = FALSE
    /\ boundPort' = Undefined
    /\ consoleErrors' = consoleErrors \cup { CloseError }
    /\ UNCHANGED crashed

\* ---------------------------------------------------------------- PluginCore
\* options.include, /\.js$/
IncludeTest(filename) ==
    /\ Len(filename) >= 3
    /\ SubSeq(filename, Len(filename) - 2, Len(filename)) = <<".", "j", "s">>

\* getTargetAssetTexts: the [filename, content] entries that match include.
getTargetAssetTexts(a) == SelectSeq(a, LAMBDA e : IncludeTest(e.filename))

\* The assets a compilation can hold: any files of the model, in any order.
AssetNames == DistinctSeqs(Filenames)

Assets(names, version) ==
    [ i \in 1..Len(names) |->
        [ filename |-> names[i], source |-> SourceText(names[i], version) ] ]

VoidSuffix == <<";", "v", "o", "i", "d", " ", "0", ";">>
JavascriptScheme == <<"j", "a", "v", "a", "s", "c", "r", "i", "p", "t", ":">>

\* Mutant of WatchRun: the dynamicScripting option is not looked at.
WatchRunAlways ==
    /\ Running
    /\ pc = "idle"
    /\ gen < MaxRebuilds
    /\ pc' = "watchRun"
    /\ watching' = TRUE
    /\ IF ~isStarted
       THEN /\ Len(starts) < MaxStarts
            /\ starts' = Append(starts, NewTask)
       ELSE UNCHANGED starts
    /\ resp' = NoResponse
    /\ UNCHANGED << configVars, serverVars, crashed, gen, assets, pending,
                    installedFrom, installedGens, rejectedGens, registered >>

\* hooks.watchRun: start the server unless it is started.
WatchRun ==
    /\ Running
    /\ pc = "idle"
    /\ gen < MaxRebuilds
    /\ pc' = "watchRun"
    /\ watching' = TRUE
    /\ IF options.dynamicScripting /\ ~isStarted
       THEN /\ Len(starts) < MaxStarts
            /\ starts' = Append(starts, NewTask)
       ELSE UNCHANGED starts
    /\ resp' = NoResponse
    /\ UNCHANGED << configVars, serverVars, crashed, gen, assets, pending,
                    installedFrom, installedGens, rejectedGens, registered >>

\* hooks.thisCompilation, of a watch run or of a single run: setIsReady(false).
ThisCompilation(names) ==
    /\ Running
    /\ pc = "watchRun" \/ (pc = "idle" /\ ~watching)
    /\ gen < MaxRebuilds
    /\ isReady' = FALSE
    /\ gen' = gen + 1
    /\ assets' = Assets(names, gen + 1)
    /\ pc' = "compilation"
    /\ resp' = NoResponse
    /\ UNCHANGED << configVars, currentPort, listening, boundPort, listenPending,
                    bookmarkletSources, logged, consoleErrors, starts, crashed,
                    watching, pending, installedFrom, installedGens, rejectedGens,
                    registered >>

\* processAssetsPreProcess: with ensureUndefined, append ";void 0;".
processAssetsPreProcess(a) ==
    IF ~options.ensureUndefined THEN a
    ELSE [ i \in 1..Len(a) |->
             IF IncludeTest(a[i].filename)
             THEN [ a[i] EXCEPT !.source = @ \o VoidSuffix ]
             ELSE a[i] ]

ProcessAssetsPreProcess ==
    /\ Running
    /\ pc = "compilation"
    /\ assets' = processAssetsPreProcess(assets)
    /\ pc' = "preProcessed"
    /\ resp' = NoResponse
    /\ UNCHANGED << configVars, serverVars, starts, crashed, watching, gen,
                    pending, installedFrom, installedGens, rejectedGens, registered >>

\* bookmarkletScripts of processAssetsBeforeSummarize
BookmarkletScripts(a) ==
    LET texts == getTargetAssetTexts(a)
    IN  [ i \in 1..Len(texts) |->
            [ filename |-> texts[i].filename, script |-> texts[i].source ] ]

\* Mutant of Bookmarklet: the urlEncode option is not looked at.
BookmarkletRaw(script) == JavascriptScheme \o script

\* `javascript:${this.options.urlEncode ? encodeURIComponent(script) : script}`
Bookmarklet(script) ==
    JavascriptScheme \o (IF options.urlEncode THEN encodeURIComponent(script) ELSE script)

\* bookmarklets of processAssetsBeforeSummarize: one per target asset.
Bookmarklets(a) ==
    LET scripts == BookmarkletScripts(a)
    IN  [ i \in 1..Len(scripts) |->
            [ filename |-> scripts[i].filename,
              bookmarklet |-> Bookmarklet(scripts[i].script) ] ]

\* The last position of a character in a text, 0 when it is not there.
LastIndexOf(text, c) ==
    LET at == { i \in 1..Len(text) : text[i] = c }
    IN  IF at = {} THEN 0 ELSE CHOOSE i \in at : \A j \in at : j <= i

\* path.parse(filename): dir, name and ext of a relative path.
pathParse(filename) ==
    LET slash == LastIndexOf(filename, "/")
        base == SubSeq(filename, slash + 1, Len(filename))
        dot == LastIndexOf(base, ".")
        hasExt == dot > 1
    IN  [ dir |-> SubSeq(filename, 1, slash - 1),
          name |-> IF hasExt THEN SubSeq(base, 1, dot - 1) ELSE base,
          ext |-> IF hasExt THEN SubSeq(base, dot, Len(base)) ELSE <<>> ]

BookmarkletInfix == <<".", "b", "o", "o", "k", "m", "a", "r", "k", "l", "e", "t">>

\* options.newFileName, "[path][name].bookmarklet[ext]", with "[path]"
\* replaced by `${parsedPath.dir}/`, "[name]" and "[ext]" by name and ext.
newFileName(filename) ==
    LET parsedPath == pathParse(filename)
    IN  parsedPath.dir \o <<"/">> \o parsedPath.name \o BookmarkletInfix \o parsedPath.ext

\* options.bookmarkletsListName, "bookmarklets.html", shortened.
BookmarkletsListName == <<"b", ".", "h", "t", "m", "l">>

\* defaultOptions.createBookmarkletsList: one <li><a href=...>name</a></li>
\* per bookmarklet, href and name escaped.
defaultCreateBookmarkletsList(bookmarklets) ==
    [ i \in 1..Len(bookmarklets) |->
        [ href |-> escapeHtml(bookmarklets[i].bookmarklet),
          text |-> escapeHtml(bookmarklets[i].filename) ] ]

\* The index of the bookmarklet made from a file, 0 when there is none.
BookmarkletOf(bookmarklets, filename) ==
    LET at == { i \in 1..Len(bookmarklets) : bookmarklets[i].filename = filename }
    IN  IF at = {} THEN 0 ELSE CHOOSE i \in at : TRUE

\* The loop over bookmarklets and the list: emitAsset under the new name or
\* updateAsset in place, deleteAsset with removeEntryFile, then the list file.
EmitBookmarklets(a) ==
    LET bookmarklets == Bookmarklets(a)
        updated == [ i \in 1..Len(a) |->
                       LET b == BookmarkletOf(bookmarklets, a[i].filename)
                       IN  IF b # 0 /\ ~options.newFile
                           THEN [ a[i] EXCEPT !.source = bookmarklets[b].bookmarklet ]
                           ELSE a[i] ]
        kept == IF options.removeEntryFile
                THEN SelectSeq(updated,
                               LAMBDA e : BookmarkletOf(bookmarklets, e.filename) = 0)
                ELSE updated
        emitted == IF options.newFile
                   THEN [ i \in 1..Len(bookmarklets) |->
                            [ filename |-> newFileName(bookmarklets[i].filename),
                              source |-> bookmarklets[i].bookmarklet ] ]
                   ELSE <<>>
        list == IF options.bookmarkletsList
                THEN << [ filename |-> BookmarkletsListName,
                          source |-> <<>>,
                          entries |-> defaultCreateBookmarkletsList(bookmarklets) ] >>
                ELSE <<>>
    IN  kept \o emitted \o list

\* processAssetsBeforeSummarize: when the server is started, begin the hash
\* computation whose completion installs the sources; then write the bookmarklets.
ProcessAssetsBeforeSummarize ==
    /\ Running
    /\ pc = "preProcessed"
    /\ pending' = IF isStarted
                  THEN pending \cup { [ gen |-> gen, scripts |-> BookmarkletScripts(assets) ] }
                  ELSE pending
    /\ assets' = EmitBookmarklets(assets)
    /\ pc' = "idle"
    /\ resp' = NoResponse
    /\ UNCHANGED << configVars, serverVars, starts, crashed, watching, gen,
                    installedFrom, installedGens, rejectedGens, registered >>

\* Mutant of HashedSources: the hash is salted with the length of the script,
\* so that it changes with every rebuild.
HashedSourcesPerBuild(scripts) ==
    [ i \in 1..Len(scripts) |->
        [ filename |-> scripts[i].filename, script |-> scripts[i].script,
          hash |-> FilenameHash[scripts[i].filename]
                     \o << HexDigit[Len(scripts[i].script) % 16] >> ] ]

\* Mutant of HashedSources: the new sources are added to the installed ones.
HashedSourcesMerged(scripts) ==
    bookmarkletSources \o
    [ i \in 1..Len(scripts) |->
        [ filename |-> scripts[i].filename, script |-> scripts[i].script,
          hash |-> FilenameHash[scripts[i].filename] ] ]

\* The sources the .then callback receives: each script with its hash.
HashedSources(scripts) ==
    [ i \in 1..Len(scripts) |->
        [ filename |-> scripts[i].filename, script |-> scripts[i].script,
          hash |-> FilenameHash[scripts[i].filename] ] ]

\* Promise.all(...).then: setBookmarkletSources(bookmarkletSources); setIsReady(true).
HashResolved(job) ==
    /\ Running
    /\ job \in pending
    /\ pending' = pending \ { job }
    /\ bookmarkletSources' = HashedSources(job.scripts)
    /\ isReady' = TRUE
    /\ installedFrom' = job
    /\ installedGens' = installedGens \cup { job.gen }
    /\ resp' = NoResponse
    /\ UNCHANGED << configVars, currentPort, listening, boundPort, listenPending,
                    logged, consoleErrors, starts, crashed, watching, pc, gen, assets,
                    rejectedGens, registered >>

\* createFilenameHash rejects for a file: the .then callback never runs, and
\* the rejection is unhandled.
HashRejected(job) ==
    /\ Running
    /\ job \in pending
    /\ pending' = pending \ { job }
    /\ rejectedGens' = rejectedGens \cup { job.gen }
    /\ crashed' \in { crashed, "unhandledRejection" }
    /\ resp' = NoResponse
    /\ UNCHANGED << configVars, serverVars, starts, watching, pc, gen, assets,
                    installedFrom, installedGens, registered >>

\* hooks.watchClose: server.close().
WatchClose ==
    /\ Running
    /\ watching
    /\ pc = "idle"
    /\ close
    /\ watching' = FALSE
    /\ resp' = NoResponse
    /\ UNCHANGED << configVars, currentPort, listenPending, isReady,
                    bookmarkletSources, logged, starts, pc, gen, assets,
                    pending, installedFrom, installedGens, rejectedGens, registered >>

\* ------------------------------------------- the bootstrap, run in a browser
\* The code of bookmarkletCode, invoked on a page: page.invocations holds one
\* record per run, page.violations counts the CSP events dispatched so far and
\* page.last is the latest of them.
NoPage ==
    [ invocations |-> <<>>, violations |-> 0,
      last |-> [ blockedURI |-> 0, disposition |-> "none" ] ]

\* new Date().getTime() + '-' + seven digits of Math.random(): what makes the
\* URL of a run its own; two runs can draw the same.
Nonces == 1..2

\* The listeners A(...) registers: E on the script, V on the document, L on
\* the script.
AllListeners == { "error", "securitypolicyviolation", "load" }

\* `var s = d.createElement('script'), u = s.src = ...`: a run begins. No
\* other code runs until a run has reached its end.
NoRunInProgress ==
    \A k \in 1..Len(page.invocations) : page.invocations[k].pc = "done"

ServerIdle ==
    UNCHANGED << userOptions, options, inUse, hashCall, portProbe, serverVars, starts, crashed,
                 buildVars, resp, registered >>

Invoke(nonce) ==
    /\ NoRunInProgress
    /\ Len(page.invocations) < MaxInvocations
    /\ page' = [ page EXCEPT !.invocations = Append(@,
                    [ pc |-> "created", u |-> nonce, listeners |-> {},
                      attached |-> FALSE, everAttached |-> FALSE,
                      listenersAtAppend |-> {}, fetch |-> "none",
                      alerts |-> <<>>, fired |-> <<>> ]) ]
    /\ ServerIdle

\* Mutant of BootstrapStatement: the script is appended and never detached.
BootstrapStatementNoRemove(run) ==
    CASE run.pc = "created" ->
             [ run EXCEPT !.pc = "E", !.listeners = @ \cup { "error" } ]
      [] run.pc = "E" ->
             [ run EXCEPT !.pc = "V", !.listeners = @ \cup { "securitypolicyviolation" } ]
      [] run.pc = "V" ->
             [ run EXCEPT !.pc = "L", !.listeners = @ \cup { "load" } ]
      [] run.pc = "L" ->
             [ run EXCEPT !.pc = "appended", !.attached = TRUE, !.everAttached = TRUE,
                          !.listenersAtAppend = run.listeners, !.fetch = "pending" ]
      [] run.pc = "appended" ->
             [ run EXCEPT !.pc = "done" ]

\* The rest of the synchronous run, statement by statement: E = A(s,'error'),
\* V = A(d,'securitypolicyviolation'), L = A(s,'load'), appendChild(s),
\* removeChild(s).
BootstrapStatement(run) ==
    CASE run.pc = "created" ->
             [ run EXCEPT !.pc = "E", !.listeners = @ \cup { "error" } ]
      [] run.pc = "E" ->
             [ run EXCEPT !.pc = "V", !.listeners = @ \cup { "securitypolicyviolation" } ]
      [] run.pc = "V" ->
             [ run EXCEPT !.pc = "L", !.listeners = @ \cup { "load" } ]
      [] run.pc = "L" ->
             [ run EXCEPT !.pc = "appended", !.attached = TRUE, !.everAttached = TRUE,
                          !.listenersAtAppend = run.listeners, !.fetch = "pending" ]
      [] run.pc = "appended" ->
             [ run EXCEPT !.pc = "done", !.attached = FALSE ]

BootstrapStep(k) ==
    /\ page.invocations[k].pc # "done"
    /\ page' = [ page EXCEPT !.invocations[k] = BootstrapStatement(@) ]
    /\ ServerIdle

\* Mutant of R: V() is missing, the document's listener stays.
RKeepsDocumentListener(run) ==
    [ run EXCEPT !.listeners = @ \cap { "securitypolicyviolation" } ]

\* function R(){ E(); V(); L() }: the three removers.
R(run) == [ run EXCEPT !.listeners = {} ]

\* The listener of the script's error event: alert(generalErrorMessage); R().
OnError(run) ==
    IF "error" \notin run.listeners THEN run
    ELSE R([ run EXCEPT !.alerts = Append(@, "general"), !.fired = Append(@, "error") ])

\* The listener of the script's load event: R.
OnLoad(run) ==
    IF "load" \notin run.listeners THEN run
    ELSE R([ run EXCEPT !.fired = Append(@, "load") ])

\* Mutant of OnViolation: e.disposition is not looked at.
OnViolationAnyDisposition(run, blockedURI, disposition) ==
    IF "securitypolicyviolation" \notin run.listeners THEN run
    ELSE IF blockedURI = run.u
         THEN R([ run EXCEPT !.alerts = Append(@, "csp"),
                              !.fired = Append(@, "securitypolicyviolation") ])
         ELSE run

\* The listener of securitypolicyviolation: e.blockedURI === u &&
\* e.disposition === 'enforce' && (alert(cspErrorMessage), R()).
OnViolation(run, blockedURI, disposition) ==
    IF "securitypolicyviolation" \notin run.listeners THEN run
    ELSE IF blockedURI = run.u /\ disposition = "enforce"
         THEN R([ run EXCEPT !.alerts = Append(@, "csp"),
                              !.fired = Append(@, "securitypolicyviolation") ])
         ELSE run

\* The fetch of a run's script fails: the script's error event.
ScriptError(k) ==
    /\ NoRunInProgress
    /\ page.invocations[k].fetch = "pending"
    /\ page' = [ page EXCEPT !.invocations[k] = OnError([ @ EXCEPT !.fetch = "failed" ]) ]
    /\ ServerIdle

\* The script of a run has been fetched and run: the script's load event.
ScriptLoad(k) ==
    /\ NoRunInProgress
    /\ page.invocations[k].fetch = "pending"
    /\ page' = [ page EXCEPT !.invocations[k] = OnLoad([ @ EXCEPT !.fetch = "loaded" ]) ]
    /\ ServerIdle

\* The page reports a CSP violation: every listener on the document gets it.
CspViolation(blockedURI, disposition) ==
    /\ NoRunInProgress
    /\ page.violations < MaxViolations
    /\ page' = [ violations |-> page.violations + 1,
                 last |-> [ blockedURI |-> blockedURI, disposition |-> disposition ],
                 invocations |->
                     [ k \in 1..Len(page.invocations) |->
                         OnViolation(page.invocations[k], blockedURI, disposition) ] ]
    /\ ServerIdle

\* ------------------------------------------------------------ specifications
OptionChoices ==
    [ fallbackPort : { Given(FALSE) },
      dynamicScripting : { Given(TRUE), Given(FALSE) },
      ensureUndefined : { Given(FALSE) },
      serverHost : { Given(ServerHost) } ]

OccupiedPrefix(k) == { DefaultPort + j : j \in 0..(k - 1) }

Constructed(optionChoices, inUseChoices) ==
    /\ userOptions \in optionChoices
    /\ options = PluginOptions(userOptions)
    /\ inUse \in inUseChoices
    /\ currentPort = Undefined
    /\ listening = FALSE
    /\ boundPort = Undefined
    /\ listenPending = Undefined
    /\ isReady = FALSE
    /\ bookmarkletSources = <<>>
    /\ logged = {}
    /\ consoleErrors = {}
    /\ page = NoPage
    /\ starts = <<>>
    /\ crashed = ""
    /\ watching = FALSE
    /\ pc = "idle"
    /\ gen = 0
    /\ assets = <<>>
    /\ pending = {}
    /\ installedFrom = [ gen |-> 0, scripts |-> <<>> ]
    /\ installedGens = {}
    /\ rejectedGens = {}
    /\ resp = NoResponse
    /\ registered = {}

InitWith(optionChoices, inUseChoices) ==
    /\ Constructed(optionChoices, inUseChoices)
    /\ hashCall = NoHashCall
    /\ portProbe = NoPortProbe

\* The plugin over a project's rebuilds, the default port free or occupied.
Init == InitWith(OptionChoices, { {}, { DefaultPort } })

Next ==
    \/ WatchRun
    \/ \E names \in AssetNames : ThisCompilation(names)
    \/ ProcessAssetsPreProcess
    \/ ProcessAssetsBeforeSummarize
    \/ \E job \in pending : HashResolved(job)
    \/ \E job \in pending : HashRejected(job)
    \/ WatchClose
    \/ \E t \in 1..Len(starts) : StartProbe(t)
    \/ ListenComplete
    \/ \E r \in Requests \cup RegisteredRequests : Request(r.path, r.param)

Spec == Init /\ [][Next]_vars

\* The start-up alone: watch sessions over a project without matching assets,
\* with fallback on or off. The occupied ports are a run from the default port
\* on, the port after the first free one occupied or not, or a run from the
\* port after a free default port on.
StartEnvironments ==
    UNION { { OccupiedPrefix(k),
              OccupiedPrefix(k) \cup ({ DefaultPort + k + 1 } \cap Ports),
              OccupiedPrefix(k) \ { DefaultPort } } :
            k \in 0..MaxFallbackAttempts }

InitStart ==
    InitWith([ fallbackPort : { Given(TRUE), Given(FALSE) },
               dynamicScripting : { Given(TRUE) },
               ensureUndefined : { Given(FALSE) },
               serverHost : { Given(ServerHost) } ],
             StartEnvironments)

NextStart ==
    \/ WatchRun
    \/ ThisCompilation(<<>>)
    \/ ProcessAssetsPreProcess
    \/ ProcessAssetsBeforeSummarize
    \/ \E job \in pending : HashResolved(job)
    \/ WatchClose
    \/ \E t \in 1..Len(starts) : StartProbe(t)
    \/ ListenComplete

SpecStart == InitStart /\ [][NextStart]_vars

\* The plugin constructed without the options the documentation gives a
\* default for (or with some of them), the default port free.
InitDefaults ==
    InitWith([ fallbackPort : { NoFlag }, dynamicScripting : { NoFlag },
               ensureUndefined : { NoFlag, Given(TRUE), Given(FALSE) },
               serverHost : { NoText, Given(ServerHost) } ],
             { {} })

NextDefaults ==
    \/ WatchRun
    \/ \E names \in AssetNames : ThisCompilation(names)
    \/ ProcessAssetsPreProcess
    \/ ProcessAssetsBeforeSummarize
    \/ \E job \in pending : HashResolved(job)
    \/ WatchClose
    \/ \E t \in 1..Len(starts) : StartProbe(t)
    \/ ListenComplete
    \/ Request("/", NoParam)

SpecDefaults == InitDefaults /\ [][NextDefaults]_vars

\* Single builds (no watch session) of projects that hold a script, a script
\* in a directory and a file include does not match, under every choice of the
\* output options.
BuildFilenames ==
    { <<"a", ".", "j", "s">>, <<"d", "/", "&", ".", "j", "s">>,
      <<"a", ".", "c", "s", "s">> }

InitBuild ==
    InitWith([ urlEncode : { Given(TRUE), Given(FALSE) },
               newFile : { Given(TRUE), Given(FALSE) },
               bookmarkletsList : { Given(TRUE), Given(FALSE) },
               removeEntryFile : { Given(TRUE), Given(FALSE) },
               ensureUndefined : { Given(TRUE), Given(FALSE) } ],
             { {} })

NextBuild ==
    \/ \E names \in DistinctSeqs(BuildFilenames) : ThisCompilation(names)
    \/ ProcessAssetsPreProcess
    \/ ProcessAssetsBeforeSummarize

SpecBuild == InitBuild /\ [][NextBuild]_vars

\* A watch session whose server is asked for /file under each hash and under
\* strings close to it: the hash without its last character, the hash with a
\* character more, the hash with its first character changed.
NearMisses(hash) ==
    { SubSeq(hash, 1, Len(hash) - 1),
      hash \o <<"0">>,
      [ hash EXCEPT ![1] = IF @ = "0" THEN "1" ELSE "0" ] }

LookupRequests ==
    { [ path |-> "/file", param |-> Param(v) ] :
        v \in UNION { { FilenameHash[f] } \cup NearMisses(FilenameHash[f]) : f \in Filenames } }

InitLookup ==
    InitWith([ fallbackPort : { Given(FALSE) }, dynamicScripting : { Given(TRUE) },
               ensureUndefined : { Given(FALSE) }, serverHost : { Given(ServerHost) } ],
             { {} })

NextLookup ==
    \/ WatchRun
    \/ \E names \in AssetNames : ThisCompilation(names)
    \/ ProcessAssetsPreProcess
    \/ ProcessAssetsBeforeSummarize
    \/ \E job \in pending : HashResolved(job)
    \/ \E t \in 1..Len(starts) : StartProbe(t)
    \/ ListenComplete
    \/ \E r \in LookupRequests : Request(r.path, r.param)

SpecLookup == InitLookup /\ [][NextLookup]_vars

\* sha256 alone: calls over short strings, with and without salt, for every
\* stretching from 1 to MaxStretching.
HashData ==
    { <<>>, <<"a">>, <<"b">>, <<"a", "b">>, <<"b", "a">>, <<"a", ".", "j", "s">> }
HashSalts == { <<>>, <<"S">>, <<"s">>, <<"a", "b">> }

InitHash ==
    /\ Constructed(OptionChoices, { {} })
    /\ hashCall \in { HashCall(data, salt, stretching) :
                         data \in HashData, salt \in HashSalts,
                         stretching \in 1..MaxStretching }
    /\ portProbe = NoPortProbe

NextHash == Sha256Round \/ Sha256Return

SpecHash == InitHash /\ [][NextHash]_vars

\* A watch session of a project with one script whose server is sent the
\* request targets "/", "/file" and "//".
RequestTargets ==
    { [ path |-> "/", param |-> NoParam ], [ path |-> "/file", param |-> NoParam ],
      [ path |-> "//", param |-> NoParam ] }

NextRequest ==
    \/ WatchRun
    \/ ThisCompilation(<< <<"a", ".", "j", "s">> >>)
    \/ ProcessAssetsPreProcess
    \/ ProcessAssetsBeforeSummarize
    \/ \E job \in pending : HashResolved(job)
    \/ \E t \in 1..Len(starts) : StartProbe(t)
    \/ ListenComplete
    \/ \E r \in RequestTargets : Request(r.path, r.param)

SpecRequest == InitLookup /\ [][NextRequest]_vars

\* isPortInUse alone: a probe of the default port or the next one, each held
\* by another process or not, refused to this process or not.
ProbePorts == { DefaultPort, DefaultPort + 1 }

InitProbe ==
    /\ Constructed(OptionChoices, SUBSET ProbePorts)
    /\ hashCall = NoHashCall
    /\ portProbe \in { PortProbe(port, denied) :
                          port \in ProbePorts, denied \in SUBSET ProbePorts }

NextProbe == ProbeBindFails \/ ProbeBinds \/ ProbeListening \/ CallerBinds

SpecProbe == InitProbe /\ [][NextProbe]_vars

\* A page on which bookmarklets the index has shown are invoked: the runs of
\* the bootstrap and the events the browser dispatches to its listeners. A
\* violation names the URL of a run, or another URL (0).
InitBootstrap ==
    InitWith([ fallbackPort : { Given(FALSE) }, dynamicScripting : { Given(TRUE) },
               ensureUndefined : { Given(FALSE) }, serverHost : { Given(ServerHost) } ],
             { {} })

NextBootstrap ==
    \/ \E nonce \in Nonces : Invoke(nonce)
    \/ \E k \in 1..Len(page.invocations) : BootstrapStep(k)
    \/ \E k \in 1..Len(page.invocations) : ScriptError(k)
    \/ \E k \in 1..Len(page.invocations) : ScriptLoad(k)
    \/ \E blockedURI \in Nonces \cup { 0 }, disposition \in { "enforce", "report" } :
          CspViolation(blockedURI, disposition)

SpecBootstrap == InitBootstrap /\ [][NextBootstrap]_vars

\* ===================================================================== claims
ServedScript(i) ==
    /\ resp.status = 200
    /\ resp.contentType = "text/javascript"
    /\ resp.content.kind = "script"
    /\ resp.content.chars = bookmarkletSources[i].script

Responded == resp.path # ""

\* The rebuild begun last has not had its sources installed.
RebuildOutstanding == gen > 0 /\ gen \notin installedGens

\* C1: every request handled after setIsReady(false) of a rebuild and before
\* that rebuild's sources are installed receives 503, also when the rebuild
\* began while the hash computation of the previous one was pending.
C1_GatedUntilInstalled ==
    (Responded /\ RebuildOutstanding) => resp.status = 503

\* C2: the /file URL an index of an earlier generation has shown, requested
\* while the server is ready with a later generation that holds the filename,
\* returns that generation's script for the filename.
C2_RegisteredUrlSurvivesRebuild ==
    \A r \in registered :
        \A i \in 1..Len(bookmarkletSources) :
            ( /\ Responded /\ isReady
              /\ r.gen < installedFrom.gen
              /\ resp.path = r.url.pathname
              /\ resp.param = Param(r.url.filename)
              /\ bookmarkletSources[i].filename = r.filename )
            => ServedScript(i)

C2_Witness ==
    \E r \in registered :
        \E i \in 1..Len(bookmarkletSources) :
            /\ Responded /\ isReady
            /\ r.gen < installedFrom.gen
            /\ resp.path = r.url.pathname
            /\ resp.param = Param(r.url.filename)
            /\ bookmarkletSources[i].filename = r.filename
            /\ ServedScript(i)
            /\ resp.content.chars = SourceText(r.filename, installedFrom.gen)
            /\ resp.content.chars # SourceText(r.filename, r.gen)

\* C3: whenever isReady is true, the sources are exactly the complete set one
\* rebuild submitted, each pair with its hash, and nothing of another rebuild.
C3_ReadyMeansOneCompleteSet ==
    isReady =>
        /\ installedFrom.gen \in 1..gen
        /\ Len(bookmarkletSources) = Len(installedFrom.scripts)
        /\ \A i \in 1..Len(bookmarkletSources) :
              /\ bookmarkletSources[i].filename = installedFrom.scripts[i].filename
              /\ bookmarkletSources[i].script = installedFrom.scripts[i].script
              /\ bookmarkletSources[i].script =
                     SourceText(bookmarkletSources[i].filename, installedFrom.gen)
              /\ bookmarkletSources[i].hash =
                     createFilenameHash(bookmarkletSources[i].filename)

C3_Witness ==
    /\ isReady
    /\ Len(bookmarkletSources) = 2
    /\ installedFrom.gen = 2
    /\ installedGens = { 1, 2 }

\* Nothing is outstanding: the compiler is idle after a rebuild of a watch
\* session with dynamic scripting, no start() and no bind is under way, and no
\* hash computation is pending or has failed.
Quiescent ==
    /\ Running /\ options.dynamicScripting /\ watching /\ listening
    /\ pc = "idle" /\ gen > 0
    /\ pending = {} /\ rejectedGens = {}
    /\ listenPending = Undefined
    /\ \A t \in 1..Len(starts) : starts[t].pc # "probing"

\* C4: once a rebuild has finished and nothing more is outstanding, the server
\* is ready (so that a retrying client gets a response other than 503), the
\* first build after watchRun included.
C4_ReadyOnceQuiescent == Quiescent => isReady

\* C9: while isReady is false every request receives 503, text/plain, whatever
\* its path and its filename parameter.
C9_NotReadyIs503 ==
    (Responded /\ ~isReady) => (resp.status = 503 /\ resp.contentType = "text/plain")

C9_Witness ==
    /\ Responded /\ ~isReady
    /\ resp.path = "/file"
    /\ \E i \in 1..Len(bookmarkletSources) : resp.param = Param(bookmarkletSources[i].hash)
    /\ resp.status = 503

\* C10: when the server is ready and a source of the current generation has
\* the hash a /file request names, the response is 200, text/javascript, and
\* its body is that source's script, unmodified.
C10_ScriptRoundTrip ==
    \A i \in 1..Len(bookmarkletSources) :
        ( /\ Responded /\ isReady
          /\ resp.path = "/file"
          /\ resp.param = Param(bookmarkletSources[i].hash) )
        => ServedScript(i)

C10_Witness ==
    /\ Responded /\ isReady
    /\ Len(bookmarkletSources) = 2
    /\ resp.path = "/file"
    /\ resp.param = Param(bookmarkletSources[2].hash)
    /\ ServedScript(2)

Finished(t) == starts[t].pc # "probing"

\* C5: with fallback, start() probes defaultPort, defaultPort+1, ... in order,
\* at most 20 candidates, assigns currentPort the first one not in use, and
\* fails with "Maximum fallback attempts reached." selecting no port when all
\* 20 are in use.
C5_FallbackSelectsFirstFree ==
    options.fallbackPort =>
        \A t \in 1..Len(starts) :
            LET task == starts[t]
                n == Len(task.probed)
            IN  /\ n <= MaxFallbackAttempts
                /\ \A j \in 1..n : task.probed[j].port = DefaultPort + j - 1
                /\ \A j \in 1..(n - 1) : task.probed[j].busy
                /\ Finished(t) =>
                      /\ n >= 1
                      /\ ~task.probed[n].busy => task.selected = task.probed[n].port
                      /\ task.probed[n].busy =>
                            /\ n = MaxFallbackAttempts
                            /\ task.pc = "rejected"
                            /\ task.error = "Maximum fallback attempts reached."
                            /\ task.selected = Undefined

\* C6: without fallback, start() probes defaultPort only; in use, it fails
\* with the port-in-use error and assigns no port, so that currentPort stays
\* unset; free, currentPort becomes defaultPort.
C6_NoFallbackProbesDefaultOnly ==
    ~options.fallbackPort =>
        /\ \A t \in 1..Len(starts) :
              LET task == starts[t]
              IN  /\ Len(task.probed) <= 1
                  /\ Finished(t) =>
                        /\ Len(task.probed) = 1
                        /\ task.probed[1].port = DefaultPort
                        /\ task.probed[1].busy =>
                              /\ task.pc = "rejected"
                              /\ task.error = "Port is already in use"
                              /\ task.selected = Undefined
                        /\ ~task.probed[1].busy =>
                              /\ task.selected = DefaultPort
                              /\ currentPort = DefaultPort
        /\ (\A t \in 1..Len(starts) : starts[t].probed = <<>> \/ starts[t].probed[1].busy)
              => currentPort = Undefined

C6_Witness ==
    /\ ~options.fallbackPort
    /\ \E t \in 1..Len(starts) :
          /\ starts[t].pc = "rejected"
          /\ starts[t].error = "Port is already in use"
          /\ starts[t].probed = << [ port |-> DefaultPort, busy |-> TRUE ] >>
    /\ currentPort = Undefined

\* C7: the port the socket is asked to listen on, and listens on, is
\* currentPort, the port of the logged origin and of every bookmarklet URL.
C7_ListensOnCurrentPort ==
    /\ listenPending # Undefined => listenPending = currentPort
    /\ listening => (boundPort = currentPort /\ StartedMsg(boundPort) \in logged)

\* C8: when start() has ended in failure (rejected, or its bind failed), the
\* server is not listening, currentPort is unset and no "Server started"
\* message has been logged.
C8_FailedStartLeavesNothing ==
    ( /\ Len(starts) = 1
      /\ starts[1].pc = "rejected" \/ crashed = "EADDRINUSE" )
    => /\ ~listening
       /\ currentPort = Undefined
       /\ \A m \in logged : m.msg # "Server started at"

\* The filename parameter of the answered request is the hash of no source.
NoSourceMatches ==
    \A i \in 1..Len(bookmarkletSources) :
        ~(resp.param.present /\ resp.param.value = bookmarkletSources[i].hash)

\* C11: ready, a /file request whose filename is the hash of no source gets
\* 200 text/javascript with the alert(...) of the "cannot be found" message,
\* never a 4xx or 5xx status.
C11_UnknownFilenameIsAlert ==
    ( /\ Responded /\ ~resp.threw /\ isReady
      /\ resp.path = "/file"
      /\ NoSourceMatches )
    => /\ resp.status = 200
       /\ resp.contentType = "text/javascript"
       /\ resp.content.kind = "alert"
       /\ resp.content.text =
              << "alert(", "The requested filename cannot be found.", ")" >>

C11_Witness ==
    /\ Responded /\ isReady
    /\ resp.path = "/file"
    /\ resp.param = Param(UnknownHash)
    /\ Len(bookmarkletSources) = 2
    /\ resp.status = 200
    /\ resp.content.kind = "alert"

\* C12: ready, a request whose path is neither "/" nor "/file" gets 404 with
\* content type text/plain.
C12_OtherPathIs404 ==
    ( /\ Responded /\ ~resp.threw /\ isReady
      /\ resp.path \notin { "/", "/file" } )
    => /\ resp.status = 404
       /\ resp.contentType = "text/plain"
       /\ resp.content.kind = "text"
       /\ resp.content.text = << 404, "Not Found" >>

C12_Witness ==
    /\ Responded /\ isReady
    /\ resp.path = "/other"
    /\ Len(bookmarkletSources) >= 1
    /\ resp.status = 404

\* The character references escapeHtml writes, as a browser reads them.
HtmlEntities ==
    { << <<"&", "a", "m", "p", ";">>, "&" >>,
      << <<"&", "#", "3", "4", ";">>, "\"" >>,
      << <<"&", "#", "3", "9", ";">>, "'" >>,
      << <<"&", "l", "t", ";">>, "<" >>,
      << <<"&", "g", "t", ";">>, ">" >> }

\* The reference that begins the text, or <<>>.
LeadingEntity(text) ==
    LET found == { e \in HtmlEntities :
                     /\ Len(e[1]) <= Len(text)
                     /\ SubSeq(text, 1, Len(e[1])) = e[1] }
    IN  IF found = {} THEN <<>> ELSE CHOOSE e \in found : TRUE

\* No HTML-significant character stands in the text as itself.
RECURSIVE IsEscaped(_)
IsEscaped(text) ==
    IF text = <<>> THEN TRUE
    ELSE LET e == LeadingEntity(text)
         IN  IF e # <<>> THEN IsEscaped(SubSeq(text, Len(e[1]) + 1, Len(text)))
             ELSE /\ Head(text) \notin { "&", "\"", "'", "<", ">" }
                  /\ IsEscaped(Tail(text))

\* What a browser shows for the text: each reference decoded, once.
RECURSIVE HtmlDecode(_)
HtmlDecode(text) ==
    IF text = <<>> THEN <<>>
    ELSE LET e == LeadingEntity(text)
         IN  IF e # <<>>
             THEN << e[2] >> \o HtmlDecode(SubSeq(text, Len(e[1]) + 1, Len(text)))
             ELSE << Head(text) >> \o HtmlDecode(Tail(text))

\* The text with every layer of escaping taken off.
RECURSIVE HtmlDecodeAll(_)
HtmlDecodeAll(text) ==
    IF HtmlDecode(text) = text THEN text ELSE HtmlDecodeAll(HtmlDecode(text))

\* C13: ready, GET / gets 200 text/html with exactly one list item per source,
\* in the order of the sources, the HTML-significant characters of each
\* display name escaped.
C13_IndexListsEverySource ==
    ( /\ Responded /\ ~resp.threw /\ isReady
      /\ resp.path = "/" )
    => /\ resp.status = 200
       /\ resp.contentType = "text/html"
       /\ resp.content.kind = "html"
       /\ Len(resp.content.items) = Len(bookmarkletSources)
       /\ \A i \in 1..Len(bookmarkletSources) :
             LET item == resp.content.items[i]
             IN  /\ item.href.scriptUrl.filename = bookmarkletSources[i].hash
                 /\ IsEscaped(item.text)
                 /\ HtmlDecodeAll(item.text)
                        = AnchorPrefix \o bookmarkletSources[i].filename

C13_Witness ==
    /\ Responded /\ isReady
    /\ resp.path = "/"
    /\ resp.status = 200
    /\ Len(resp.content.items) = 2
    /\ bookmarkletSources[1].filename = <<"&", ".", "j", "s">>
    /\ bookmarkletSources[2].filename = <<"a", ".", "j", "s">>

\* C14: the script URL of every link of a rendered index has path /file and
\* the stored hash of its source as filename, and that URL, requested while
\* the generation the index was rendered from is installed, gets exactly that
\* source's script.
C14_IndexLinksServeTheirSource ==
    /\ ( Responded /\ ~resp.threw /\ resp.content.kind = "html" ) =>
          \A i \in 1..Len(bookmarkletSources) :
              LET url == resp.content.items[i].href.scriptUrl
              IN  /\ url.pathname = "/file"
                  /\ url.filename = bookmarkletSources[i].hash
                  /\ createResponse(url.pathname, Param(url.filename))
                         = createBookmarkletFileResponse(bookmarkletSources[i].script)
    /\ \A r \in registered :
          ( /\ Responded /\ ~resp.threw /\ isReady
            /\ r.gen = installedFrom.gen
            /\ resp.path = r.url.pathname
            /\ resp.param = Param(r.url.filename) )
          => \E i \in 1..Len(bookmarkletSources) :
                /\ bookmarkletSources[i].filename = r.filename
                /\ ServedScript(i)
                /\ resp.content.chars = SourceText(r.filename, r.gen)

C14_Witness ==
    /\ Responded /\ isReady
    /\ Len(bookmarkletSources) = 2
    /\ \E r \in registered :
          /\ r.gen = installedFrom.gen
          /\ r.filename = bookmarkletSources[2].filename
          /\ resp.path = r.url.pathname
          /\ resp.param = Param(r.url.filename)
          /\ ServedScript(2)

\* C15: a port another server instance listens on is never the port this
\* server reports or listens on: started with the default port so held, start()
\* fails with the port-in-use error (fallback disabled) or selects another
\* port (fallback enabled).
C15_NoTwoServersOnOnePort ==
    /\ currentPort \notin inUse
    /\ listening => boundPort \notin inUse
    /\ DefaultPort \in inUse =>
          \A t \in 1..Len(starts) :
              Finished(t) =>
                  IF options.fallbackPort
                  THEN starts[t].selected # DefaultPort
                  ELSE /\ starts[t].pc = "rejected"
                       /\ starts[t].error = "Port is already in use"

C15_Witness ==
    /\ DefaultPort \in inUse
    /\ options.fallbackPort
    /\ currentPort = DefaultPort + 1
    /\ \E t \in 1..Len(starts) :
          /\ Finished(t)
          /\ starts[t].selected = DefaultPort + 1
          /\ starts[t].probed[1] = [ port |-> DefaultPort, busy |-> TRUE ]

\* C16: close(), called by watchClose in any state of the server, raises
\* nothing; the server is not listening afterwards; what server.close reports
\* (nothing, or that the server was not running) is given to console.error only.
C16_CloseIsBestEffort ==
    [][ (watching /\ ~watching') =>
            /\ crashed' = crashed
            /\ ~listening'
            /\ CloseError \in consoleErrors' ]_vars

\* close() has been called on a listening server and on one not listening.
C16_Witness ==
    /\ Running
    /\ ~watching
    /\ ~listening
    /\ consoleErrors = { "undefined", "ERR_SERVER_NOT_RUNNING" }

\* C17: in one run of the bootstrap at most one of the three handlers takes
\* effect and at most one alert is shown, and once a handler has taken effect
\* no listener of that run, the document's CSP listener included, is registered.
C17_FirstHandlerRemovesAll ==
    \A k \in 1..Len(page.invocations) :
        LET run == page.invocations[k]
        IN  /\ Len(run.alerts) <= 1
            /\ Len(run.fired) <= 1
            /\ run.fired # <<>> => run.listeners = {}
            /\ run.pc = "done" => run.listeners \in { {}, AllListeners }

\* A run whose script was blocked: the violation was reported first and
\* alerted, the script's error event came after it and found no listener.
C17_Witness ==
    \E k \in 1..Len(page.invocations) :
        LET run == page.invocations[k]
        IN  /\ run.fired = << "securitypolicyviolation" >>
            /\ run.alerts = << "csp" >>
            /\ run.fetch = "failed"
            /\ run.listeners = {}

\* Nothing of the delivery server is in use.
ServerUntouched ==
    /\ ~listening
    /\ listenPending = Undefined
    /\ currentPort = Undefined
    /\ bookmarkletSources = <<>>
    /\ pending = {}
    /\ installedGens = {}
    /\ ~isReady

\* C18: start() is invoked in a watchRun step only, and only with
\* dynamicScripting true; with dynamicScripting false, and as long as no
\* watchRun has invoked start(), the server does not listen and has no sources.
C18_StartOnlyFromWatchRun ==
    /\ [](~options.dynamicScripting => starts = <<>>)
    /\ [](starts = <<>> => ServerUntouched)
    /\ [][ Len(starts') > Len(starts) =>
               /\ options.dynamicScripting
               /\ pc = "idle"
               /\ pc' = "watchRun" ]_vars

\* dynamicScripting false: a watch session has rebuilt, nothing was started.
C18_Witness ==
    /\ ~options.dynamicScripting
    /\ watching
    /\ gen = MaxRebuilds
    /\ pc = "idle"
    /\ starts = <<>>
    /\ ServerUntouched

\* C19: serverHost not supplied, the server's host is "localhost": every
\* origin it logs and every script URL it shows is http://localhost:<port>.
C19_DefaultHostIsLocalhost ==
    ~userOptions.serverHost.given =>
        /\ options.serverHost = ServerHost
        /\ \A m \in logged : m.origin.host = ServerHost
        /\ \A r \in registered : r.url.origin.host = ServerHost

\* ensureUndefined as the documentation gives it: true unless supplied false.
EnsureUndefinedDocumented ==
    ~userOptions.ensureUndefined.given \/ userOptions.ensureUndefined.value

\* C20: after the pre-process stage every asset that matches include holds
\* its script followed by ";void 0;" when ensureUndefined is not supplied or
\* true, and its script untouched when it is false.
C20_EnsureUndefinedDefaultsTrue ==
    pc = "preProcessed" =>
        \A i \in 1..Len(assets) :
            IncludeTest(assets[i].filename) =>
                assets[i].source =
                    SourceText(assets[i].filename, gen)
                      \o (IF EnsureUndefinedDocumented THEN VoidSuffix ELSE <<>>)

\* The positions of the assets of a given name.
Named(a, filename) == { j \in 1..Len(a) : a[j].filename = filename }

\* "javascript:" and the script, URL-encoded unless urlEncode is false.
WantedBookmarklet(script) ==
    JavascriptScheme \o (IF options.urlEncode THEN encodeURIComponent(script) ELSE script)

\* What the claim asks of the assets after the stage, given those before it.
BuildOutputOk(before, after) ==
    LET targets == SelectSeq(before, LAMBDA e : IncludeTest(e.filename))
    IN  /\ \A i \in 1..Len(before) :
              LET e == before[i]
                  same == Named(after, e.filename)
                  new == Named(after, newFileName(e.filename))
              IN  /\ ~IncludeTest(e.filename) =>
                        (Cardinality(same) = 1 /\ \A j \in same : after[j] = e)
                  /\ (IncludeTest(e.filename) /\ ~options.newFile
                                            /\ ~options.removeEntryFile) =>
                        /\ Cardinality(same) = 1
                        /\ \A j \in same : after[j].source = WantedBookmarklet(e.source)
                  /\ (IncludeTest(e.filename) /\ options.newFile) =>
                        /\ Cardinality(new) = 1
                        /\ \A j \in new : after[j].source = WantedBookmarklet(e.source)
                        /\ ~options.removeEntryFile =>
                              (Cardinality(same) = 1 /\ \A j \in same : after[j] = e)
        /\ IF options.bookmarkletsList
           THEN /\ Cardinality(Named(after, BookmarkletsListName)) = 1
                /\ \A j \in Named(after, BookmarkletsListName) :
                      /\ Len(after[j].entries) = Len(targets)
                      /\ \A k \in 1..Len(targets) :
                            /\ HtmlDecode(after[j].entries[k].href)
                                   = WantedBookmarklet(targets[k].source)
                            /\ HtmlDecode(after[j].entries[k].text) = targets[k].filename
           ELSE Named(after, BookmarkletsListName) = {}

C22_LatestGenerationWins ==
    (pending = {} /\ rejectedGens = {} /\ installedGens # {}) =>
        /\ \A g \in installedGens : g <= installedFrom.gen
        /\ bookmarkletSources = HashedSources(installedFrom.scripts)

\* C23: currentPort is given its value once, at startup: no step between two
\* states in which the server is listening changes it.
C23_CurrentPortFixedWhileListening ==
    [][ (listening /\ listening') => currentPort' = currentPort ]_vars

\* close() has been issued: its callback has handed console.error a value.
CloseIssued == consoleErrors # {}

\* C24: once close() has been issued the server is never listening again and
\* answers no request, whatever hooks fire afterwards.
C24_ClosedIsTerminal ==
    CloseIssued => (~listening /\ resp = NoResponse)

\* What a securitypolicyviolation event may do to one invocation: alert and
\* remove the listeners when it names the invocation's URL and is enforced,
\* nothing otherwise.
ViolationEffectOk(before, after, blockedURI, disposition) ==
    IF /\ "securitypolicyviolation" \in before.listeners
       /\ blockedURI = before.u
       /\ disposition = "enforce"
    THEN after.alerts = Append(before.alerts, "csp") /\ after.listeners = {}
    ELSE after.alerts = before.alerts /\ after.listeners = before.listeners

\* C25: a securitypolicyviolation event alerts and cleans up in exactly the
\* invocations whose cache-busted URL it names, and only when its disposition
\* is 'enforce'; every other invocation keeps its listeners and stays silent.
C25_CspHandlerIsFiltered ==
    [][ page'.violations # page.violations =>
          \A k \in 1..Len(page.invocations) :
              ViolationEffectOk(page.invocations[k], page'.invocations[k],
                                page'.last.blockedURI, page'.last.disposition) ]_vars

\* One event, two invocations: the one it names has alerted and cleaned up, the
\* other keeps its three listeners and has shown nothing.
C25_Witness ==
    /\ page.violations = 1
    /\ Len(page.invocations) = 2
    /\ page.invocations[1].u = 1
    /\ page.invocations[1].alerts = <<"csp">>
    /\ page.invocations[1].listeners = {}
    /\ page.invocations[2].u = 2
    /\ page.invocations[2].alerts = <<>>
    /\ page.invocations[2].listeners = AllListeners

\* C26: the three listeners are registered when the script element is
\* appended, the element is in the document only between appendChild and
\* removeChild, and a finished run has left no script node behind.
C26_ListenersThenAppendThenDetach ==
    \A k \in 1..Len(page.invocations) :
        LET run == page.invocations[k]
        IN  /\ run.everAttached => run.listenersAtAppend = AllListeners
            /\ run.attached => run.pc = "appended"
            /\ run.pc = "done" => (run.everAttached /\ ~run.attached)

\* A run that has finished: its script was appended and is gone.
C26_Witness ==
    \E k \in 1..Len(page.invocations) :
        /\ page.invocations[k].pc = "done"
        /\ page.invocations[k].everAttached
        /\ ~page.invocations[k].attached
        /\ page.invocations[k].listenersAtAppend = AllListeners
        /\ page.invocations[k].fetch = "pending"

\* C27: a /file request is answered with a script only when its filename
\* parameter is, as a whole string, the stored hash of a source, and the script
\* is that source's; a prefix of a hash, a longer string or a string that
\* differs in a character selects nothing.
C27_LookupIsExactMatch ==
    (Responded /\ ~resp.threw /\ isReady /\ resp.path = "/file") =>
        IF NoSourceMatches
        THEN resp.content.kind = "alert"
        ELSE \E i \in 1..Len(bookmarkletSources) :
                /\ resp.param = Param(bookmarkletSources[i].hash)
                /\ ServedScript(i)

\* Two sources are installed and the request named the hash of the second
\* without its last character: it was answered with the alert.
C27_Witness ==
    /\ Responded /\ isReady /\ resp.path = "/file"
    /\ Len(bookmarkletSources) = 2
    /\ resp.param.present
    /\ Len(resp.param.value) = Len(bookmarkletSources[2].hash) - 1
    /\ resp.param.value = SubSeq(bookmarkletSources[2].hash, 1, Len(resp.param.value))
    /\ resp.content.kind = "alert"

\* C28: the sources the server holds have pairwise distinct hashes, and the
\* lookup under the hash of a source finds that very source.
C28_HashesDistinctPerGeneration ==
    \A i, j \in 1..Len(bookmarkletSources) :
        /\ i # j => bookmarkletSources[i].hash # bookmarkletSources[j].hash
        /\ FindSource(bookmarkletSources, Param(bookmarkletSources[i].hash)) = i

\* The second build's two sources are installed; each is found under its hash.
C28_Witness ==
    /\ isReady /\ installedFrom.gen = 2
    /\ Len(bookmarkletSources) = 2
    /\ bookmarkletSources[1].filename # bookmarkletSources[2].filename
    /\ bookmarkletSources[1].hash # bookmarkletSources[2].hash
    /\ FindSource(bookmarkletSources, Param(bookmarkletSources[2].hash)) = 2

LowercaseHex ==
    { "0", "1", "2", "3", "4", "5", "6", "7", "8", "9", "a", "b", "c", "d", "e", "f" }

\* The inputs the claim gives the digest: the data alone first, then
\* `stretching` times the previous digest followed by the salt.
RECURSIVE ClaimedInputs(_, _, _)
ClaimedInputs(input, binarySalt, rounds) ==
    IF rounds = 0 THEN << input >>
    ELSE << input >> \o ClaimedInputs(Digest(input) \o binarySalt, binarySalt, rounds - 1)

\* The inputs the digest is given when the data and the salt go into the first
\* round together and there are `stretching` rounds in all.
RECURSIVE SaltedInputs(_, _, _)
SaltedInputs(input, binarySalt, rounds) ==
    IF rounds = 1 THEN << input >>
    ELSE << input >> \o SaltedInputs(Digest(input) \o binarySalt, binarySalt, rounds - 1)

\* C29: a returned call has digested the data, then `stretching` times the
\* previous digest followed by the salt, and returns the last digest as
\* lowercase hex.
C29_DigestThenStretch ==
    hashCall.returned =>
        LET inputs == ClaimedInputs(utf8Encode(hashCall.data), utf8Encode(hashCall.salt),
                                    hashCall.stretching)
        IN  /\ hashCall.digested = inputs
            /\ hashCall.hex = toHexString(Digest(inputs[Len(inputs)]))
            /\ \A k \in 1..Len(hashCall.hex) : hashCall.hex[k] \in LowercaseHex

\* C29, amended: a returned call has applied the digest exactly `stretching`
\* times, first to the data followed by the salt, then to the previous digest
\* followed by the salt, and returns the last digest as lowercase hex, which
\* is what sha256 gives for these inputs.
C29_StretchingDigestsInAll ==
    hashCall.returned =>
        LET inputs == SaltedInputs(utf8Encode(hashCall.data) \o utf8Encode(hashCall.salt),
                                   utf8Encode(hashCall.salt), hashCall.stretching)
        IN  /\ Len(hashCall.digested) = hashCall.stretching
            /\ hashCall.digested = inputs
            /\ hashCall.hex = toHexString(Digest(inputs[Len(inputs)]))
            /\ hashCall.hex = sha256(hashCall.data, hashCall.salt, hashCall.stretching)
            /\ \A k \in 1..Len(hashCall.hex) : hashCall.hex[k] \in LowercaseHex

\* sha256("ab", { salt: "S", stretching: 2 }) has returned after two digests,
\* the first of the bytes of "abS".
C29_Witness ==
    /\ hashCall.returned
    /\ hashCall.data = <<"a", "b">> /\ hashCall.salt = <<"S">>
    /\ hashCall.stretching = 2
    /\ Len(hashCall.digested) = 2
    /\ hashCall.digested[1] = << 97, 98, 83 >>
    /\ Len(hashCall.hex) = 4

\* C30: every request the handler is given ends with a response (status,
\* content type, body), none with an exception out of the handler.
C30_EveryRequestIsAnswered ==
    Responded =>
        /\ ~resp.threw
        /\ resp.status # 0
        /\ resp.contentType # ""
        /\ resp.content.kind # "none"
        /\ crashed # "uncaughtException"

\* C31: isPortInUse resolves true only for EADDRINUSE, rejects with the error
\* it was given for any other bind error, and resolves false only after a bind
\* that succeeded and whose socket it has closed, so that the caller's own bind
\* of the port succeeds.
C31_ProbeReportsAndReleases ==
    /\ portProbe.settled = "true" => portProbe.error = "EADDRINUSE"
    /\ portProbe.settled = "rejected" =>
          /\ portProbe.error \notin { "", "EADDRINUSE" }
          /\ portProbe.rejection = portProbe.error
    /\ portProbe.settled = "false" => (portProbe.error = "" /\ ~portProbe.bound)
    /\ portProbe.pc = "done" =>
          portProbe.settled = (CASE BindError(portProbe) = "EADDRINUSE" -> "true"
                                 [] BindError(portProbe) = "" -> "false"
                                 [] OTHER -> "rejected")
    /\ portProbe.pc = "callerListened" => portProbe.callerBound

\* The probe of a free port answered false and the caller has bound the port.
C31_Witness ==
    /\ portProbe.pc = "callerListened"
    /\ portProbe.settled = "false"
    /\ portProbe.port = DefaultPort
    /\ portProbe.callerBound
    /\ ~portProbe.bound

\* The probes of one start() so far are of consecutive candidates, each but
\* the last answered "in use"; the probe in flight, if any, is of the next
\* candidate.
ProbesInSequence(task) ==
    LET n == Len(task.probed)
    IN  /\ \A j \in 1..n : task.probed[j].port = FallbackCandidate(j - 1)
        /\ \A j \in 1..(n - 1) : task.probed[j].busy
        /\ task.pc = "probing" =>
              (task.i = n /\ \A j \in 1..n : task.probed[j].busy)

\* C32: under fallback the probes of one start() are made one after the other:
\* a step answers at most one probe of a start(), the next candidate is probed
\* only when every earlier one has answered "in use", and nothing is probed
\* after the first free candidate.
C32_ProbesAreSequential ==
    /\ [](options.fallbackPort => \A t \in 1..Len(starts) : ProbesInSequence(starts[t]))
    /\ [][ \A t \in 1..Len(starts) :
              Len(starts'[t].probed) <= Len(starts[t].probed) + 1 ]_vars

\* A start() found the default port in use and the next one free, and has
\* ended with these two probes.
C32_Witness ==
    /\ options.fallbackPort
    /\ \E t \in 1..Len(starts) :
          /\ starts[t].pc # "probing"
          /\ Len(starts[t].probed) = 2
          /\ starts[t].probed[1].busy
          /\ ~starts[t].probed[2].busy
          /\ starts[t].selected = DefaultPort + 1

\* The invocations of start() that have not ended.
StartsInFlight == { t \in 1..Len(starts) : starts[t].pc = "probing" }

\* C33: within a watch session at most one start() is in flight, and none is
\* while the server is binding or listening.
C33_OneStartupInFlight ==
    ~CloseIssued =>
        /\ Cardinality(StartsInFlight) <= 1
        /\ (listening \/ listenPending # Undefined) => StartsInFlight = {}

\* C34: the step that handles a request leaves isReady, the sources and
\* currentPort as they were, whatever the path, the query and the answer.
C34_RequestIsReadOnly ==
    [][ resp'.path # "" =>
          /\ isReady' = isReady
          /\ bookmarkletSources' = bookmarkletSources
          /\ currentPort' = currentPort ]_vars

\* A script has been served from the single source of a ready server, which
\* still holds it.
C34_Witness ==
    /\ Responded /\ isReady /\ currentPort = DefaultPort
    /\ Len(bookmarkletSources) = 1
    /\ resp.path = "/file"
    /\ ServedScript(1)

\* C35: as long as no generation has been installed the server is not ready,
\* listening or not, and a request it answers gets 503, never an index.
C35_NotReadyBeforeFirstInstall ==
    installedGens = {} =>
        /\ ~isReady
        /\ (Responded /\ ~resp.threw) =>
              (resp.status = 503 /\ resp.content.kind # "html")

\* The server listens, nothing has been installed, and GET / got 503.
C35_Witness ==
    /\ listening /\ installedGens = {} /\ pending = {}
    /\ Responded
    /\ resp.path = "/"
    /\ resp.status = 503

\* C36: in an index the anchor text of each item, its character references
\* decoded once as a browser does, is "[w] " followed by the filename of the
\* item's source.
C36_DisplayNameEscapedOnce ==
    (Responded /\ ~resp.threw /\ isReady /\ resp.path = "/") =>
        \A i \in 1..Len(bookmarkletSources) :
            HtmlDecode(resp.content.items[i].text)
                = AnchorPrefix \o bookmarkletSources[i].filename

\* C37: ready, a /file request without a filename parameter selects no source
\* and is answered 200, text/javascript, with the alert script.
C37_AbsentFilenameIsAlert ==
    ( /\ Responded /\ ~resp.threw /\ isReady
      /\ resp.path = "/file"
      /\ ~resp.param.present )
    => /\ resp.status = 200
       /\ resp.contentType = "text/javascript"
       /\ resp.content.kind = "alert"
       /\ resp.content.chars = <<>>

\* Two sources are installed and /file without a filename got the alert.
C37_Witness ==
    /\ Responded /\ isReady
    /\ Len(bookmarkletSources) = 2
    /\ resp.path = "/file"
    /\ ~resp.param.present
    /\ resp.status = 200
    /\ resp.content.kind = "alert"

\* C38: when the hash computation of the latest rebuild has failed, the server
\* is not ready, its sources are those of the generation installed before (or
\* none), and every request it answers gets 503.
C38_FailedHashInstallsNothing ==
    gen \in rejectedGens =>
        /\ ~isReady
        /\ gen \notin installedGens
        /\ installedFrom.gen < gen
        /\ bookmarkletSources = HashedSources(installedFrom.scripts)
        /\ (Responded /\ ~resp.threw) => resp.status = 503

====
